---- MODULE Spec2Model ----
(***************************************************************************)
(* Plugin discovery and loading of MasudaHiromasa/Files.                   *)
(*                                                                         *)
(*   src/gemini5.py      get_task_info_list  (metadata-first discovery)    *)
(*                       load_task_module    (on-demand load)              *)
(*   src/load_module.py  get_task_module     (eager discovery-and-load)    *)
(*                                                                         *)
(* The state is the directory tree the functions read, the interpreter's   *)
(* module table sys.modules, the locals of the call in progress and the    *)
(* values the host holds after a call returned.  Calls are sequential      *)
(* (the code is single-threaded): one call runs from its Call action to    *)
(* its return before the next one starts.                                  *)
(***************************************************************************)
EXTENDS Integers, Sequences, FiniteSets, TLC

\* ------------------------------------------------------------------ bounds
\* Number of entries os.listdir reports in the parent directory.
NumEntries == 2
\* Number of module objects alive at once (ids for module_from_spec).
MaxUnits == 4
\* Number of times the environment rewrites a main.py between calls.
MaxEdits == 1

Entries == 1..NumEntries

\* ------------------------------------------------------- plugin programs
\* gemini5.py:8
REQUIRED_FUNCTIONS == <<"get_description", "pre_proc", "main_proc", "post_proc">>
\* load_module.py:47
required_funcs == <<"pre_proc", "post_proc", "main_proc", "get_name">>

\* Every name either check looks up on a module.
HookNames == {"get_description", "get_name", "pre_proc", "main_proc", "post_proc"}

\* What a main.py binds a name to: nothing, a non-callable value (pre_proc = 5),
\* or a function.
AttrKinds == {"absent", "noncallable", "callable"}

\* What running the top-level code of a main.py does: completes, raises an
\* Exception subclass (SyntaxError, ImportError, ValueError, ...), or raises a
\* BaseException that is no Exception (SystemExit from sys.exit()).
Tops == {"ok", "raise", "exit"}

\* What calling get_name() does: returns a str, returns a non-str, raises.
RetKinds == {"str", "nonstr", "raise"}

Idents == {"N1", "N2"}

\* The content of a main.py, by what it does when executed:
\*   top   the outcome of the top-level code
\*   reg   the top-level code stores its own module object in
\*         sys.modules[__name__]
\*   attr  what each hook name is bound to afterwards
\*   ret, ident  the behaviour of get_name() and the str it returns
AllPrograms ==
  [top : Tops, reg : BOOLEAN, attr : [HookNames -> AttrKinds],
   ret : RetKinds, ident : Idents]

AllCallable == [n \in HookNames |-> "callable"]
OnlyMainProc == [n \in HookNames |-> IF n = "main_proc" THEN "callable" ELSE "absent"]

\* The reference plugin: runs cleanly, defines every hook, get_name returns a str.
RefProgram ==
  [top |-> "ok", reg |-> FALSE, attr |-> AllCallable, ret |-> "str", ident |-> "N1"]

\* attr differs from AllCallable at no more than one name
OneOff(attr) == Cardinality({n \in HookNames : attr[n] # "callable"}) <= 1

\* The programs the model places in main.py files: the reference plugin and the
\* programs that differ from it in one respect (one hook absent or non-callable,
\* a failing top level, a failing get_name, a different identity), each of the
\* ones that run to completion also in the variant that registers itself, and
\* the spec's task_B, which defines main_proc only.
Programs ==
  { p \in AllPrograms :
      \/ /\ p.top = "ok" /\ p.ret = "str" /\ p.ident = "N1"
         /\ p.attr = AllCallable
      \/ /\ p.top = "ok" /\ p.ret = "str" /\ p.ident = "N1" /\ p.reg
         /\ OneOff(p.attr)
      \/ /\ p.top = "ok" /\ p.reg /\ p.attr = AllCallable
         /\ \/ p.ret = "str"
            \/ p.ident = "N1"
      \/ /\ p.top # "ok" /\ ~p.reg /\ p.attr = AllCallable
         /\ p.ret = "str" /\ p.ident = "N1"
      \/ /\ p.top = "ok" /\ ~p.reg /\ p.attr = OnlyMainProc
         /\ p.ret = "str" /\ p.ident = "N1" }

\* ---------------------------------------------------------- directory tree
\* name.txt: absent, unreadable (open/read raises), or a text.  A text is a
\* sequence of characters; " " stands for any whitespace character.
NoSidecar == <<"<absent>">>
Unreadable == <<"<unreadable>">>
Texts == { <<>>, <<" ">>, <<" ", "A", " ">>, <<"A", " ", "B">> }
Sidecars == {NoSidecar, Unreadable} \cup Texts

\* main.py: absent or a program
NoFile == [top |-> "nofile", reg |-> FALSE, attr |-> [n \in HookNames |-> "absent"],
           ret |-> "raise", ident |-> "N1"]

\* One entry of the parent directory: a subdirectory or a plain file, and, for
\* a subdirectory, its main.py and its name.txt.
DefaultText == <<" ", "A", " ">>
EntryKinds ==
  { [isDir |-> TRUE, main |-> p, sidecar |-> DefaultText] : p \in Programs }
  \cup { [isDir |-> TRUE, main |-> RefProgram, sidecar |-> s] : s \in Sidecars }
  \cup { [isDir |-> TRUE, main |-> OnlyMain, sidecar |-> NoSidecar] :
           OnlyMain \in {p \in Programs : p.attr = OnlyMainProc} }
  \cup { [isDir |-> TRUE, main |-> NoFile, sidecar |-> DefaultText],
         [isDir |-> FALSE, main |-> NoFile, sidecar |-> NoSidecar] }

\* The entries a layout may repeat: the reference plugin, unregistered and
\* registered, a second registered plugin with another identity, a plugin whose
\* top-level code raises, and the spec's task_B (main_proc only, no sidecar).
BasicPrograms ==
  { p \in Programs :
      \/ p.attr = AllCallable /\ p.ret = "str" /\ p.top # "exit"
      \/ p.attr = OnlyMainProc }
BasicKinds ==
  { k \in EntryKinds :
      /\ k.isDir
      /\ k.main \in BasicPrograms
      /\ k.sidecar = IF k.main.attr = OnlyMainProc THEN NoSidecar ELSE DefaultText }

\* The directory trees the model starts from: every entry is one of the basic
\* kinds, except for at most one entry, which is of any kind.
Layouts ==
  { f \in [Entries -> EntryKinds] :
      Cardinality({e \in Entries : f[e] \notin BasicKinds}) <= 1 }

\* ------------------------------------------------------------------- state
VARIABLES
  parentIsDir,  \* os.path.isdir(task_folder): the parent path is a directory
  fs,           \* the entries of the parent directory
  sysModules,   \* sys.modules: module name -> id of the module object, 0 if none
  pc,           \* position of the call in progress, "idle" between calls
  lastOp,       \* the function called most recently
  escaped,      \* the exception that call let escape to its caller, or "none"
  task_infos,   \* the descriptor list the host holds, from get_task_info_list
  loadRet,      \* what that call returned if it was load_task_module (NoModule
                \* for None), and
  held,         \* what the load_task_module call right before it returned
  eagerRet,     \* what that call returned if it was get_task_module
  task_info,    \* load_task_module: its argument
  module,       \* both loaders: the module object being loaded
  i,            \* get_task_module: index of the entry the loop is at
  task_names,   \* get_task_module: local list of identities
  modules,      \* get_task_module: local list of modules
  last,         \* how the latest load attempt of the call ended
  stdout,       \* the messages that call printed
  ran,          \* the plugin code that call ran: top-level code and hooks
  edits         \* number of rewrites of a main.py so far

vars ==
  <<parentIsDir, fs, sysModules, pc, lastOp, escaped, task_infos, loadRet, held,
    eagerRet, task_info, module, i, task_names, modules, last, stdout, ran,
    edits>>

\* Module names: get_task_module names a module after its directory (entry),
\* load_task_module after module_id = f"{subdir_name}_main".
Tokens == Entries \X {"", "_main"}
NoToken == <<0, "">>

\* A module object.  id tells two objects apart (Python's `is`); attr and ret
\* are what executing the main.py bound; execs counts the runs of the top-level
\* code in this object.
NoModule ==
  [id |-> 0, token |-> NoToken, attr |-> [n \in HookNames |-> "absent"],
   ret |-> "raise", ident |-> "N1", execs |-> 0]

\* gemini5.py:10-16
NoInfo == [name |-> 0, description |-> <<>>, main_py_path |-> 0, module_id |-> NoToken]
TaskModuleInfo(subdir_name, description) ==
  [name |-> subdir_name, description |-> description,
   main_py_path |-> subdir_name, module_id |-> <<subdir_name, "_main">>]

\* The end of one load attempt: the module name it was for, the statement it
\* ended at, and whether it delivered a module.
NoLast == [token |-> NoToken, at |-> "none", ok |-> FALSE]
Ended(name, ok) == [token |-> name, at |-> pc, ok |-> ok]

\* One printed line: which print statement, and the directory name and the
\* function name its f-string puts in (0 and "" when it has none).
Msg(msg, name, func) == [msg |-> msg, name |-> name, func |-> func]

\* The plugin code run so far by the call in progress: the module names whose
\* top-level code was executed and those on which a hook was called.
NoRan == [top |-> {}, hook |-> {}]

NoPair == [task_names |-> <<>>, modules |-> <<>>, returned |-> FALSE]

\* ids of the module objects sys.modules and the host's load results refer to
HeldIds == {sysModules[t] : t \in Tokens} \cup {loadRet.id, held.id}

\* ids of the module objects something still refers to
LiveIds ==
  HeldIds \cup {module.id}
  \cup {modules[k].id : k \in 1..Len(modules)}
  \cup {eagerRet.modules[k].id : k \in 1..Len(eagerRet.modules)}

FreeIds == (1..MaxUnits) \ LiveIds

\* ------------------------------------------------------------------ helpers
IsSpace(c) == c = " "

\* str.strip(): drop leading and trailing whitespace
RECURSIVE LStrip(_)
LStrip(s) == IF s # <<>> /\ IsSpace(Head(s)) THEN LStrip(Tail(s)) ELSE s

RECURSIVE RStrip(_)
RStrip(s) ==
  IF s # <<>> /\ IsSpace(s[Len(s)]) THEN RStrip(SubSeq(s, 1, Len(s) - 1)) ELSE s

\* Mutant of Strip: the text is used as read, .strip() forgotten.
Strip_Unstripped(s) == s

Strip(s) == RStrip(LStrip(s))

\* os.path.exists / os.path.isfile of <parent>/<e>/main.py and name.txt
MainExists(e) == fs[e].isDir /\ fs[e].main # NoFile
SidecarExists(e) == fs[e].isDir /\ fs[e].sidecar # NoSidecar

hasattr(m, name) == m.attr[name] # "absent"
callable(m, name) == m.attr[name] = "callable"

\* --------------------------------------------- gemini5.get_task_info_list
\* The body of the for loop (gemini5.py:58-87) for one subdir_name: the list
\* with the entry's descriptor appended, or the list unchanged when the entry
\* is skipped.
InfoStep(acc, subdir_name) ==
  IF ~MainExists(subdir_name) \/ ~SidecarExists(subdir_name)
  THEN acc
  ELSE IF fs[subdir_name].sidecar = Unreadable
  THEN acc
  ELSE LET description == Strip(fs[subdir_name].sidecar)
       IN IF description = <<>>
          THEN acc
          ELSE Append(acc, TaskModuleInfo(subdir_name, description))

\* What the loop body prints for one subdir_name (gemini5.py:73, 84, 87);
\* nothing for an entry skipped at line 65.
InfoPrints(subdir_name) ==
  IF ~MainExists(subdir_name) \/ ~SidecarExists(subdir_name)
  THEN {}
  ELSE IF fs[subdir_name].sidecar = Unreadable
  THEN {Msg("name.txt read exception", subdir_name, "")}
  ELSE IF Strip(fs[subdir_name].sidecar) = <<>>
  THEN {Msg("name.txt empty, skipped", subdir_name, "")}
  ELSE {Msg("metadata read from name.txt", subdir_name, "")}

\* Mutant of InfoScan: an exception reading one name.txt ends the scan.
RECURSIVE InfoScan_StopsOnError(_, _)
InfoScan_StopsOnError(acc, k) ==
  IF k > NumEntries THEN acc
  ELSE IF MainExists(k) /\ fs[k].sidecar = Unreadable THEN acc
  ELSE InfoScan_StopsOnError(InfoStep(acc, k), k + 1)

RECURSIVE InfoScan(_, _)
InfoScan(acc, k) ==
  IF k > NumEntries THEN acc ELSE InfoScan(InfoStep(acc, k), k + 1)

\* Mutant of get_task_info_list: discovery executes the main.py of every
\* candidate it lists.
get_task_info_list_Executes ==
  /\ pc = "idle"
  /\ lastOp' = "get_task_info_list"
  /\ escaped' = "none"
  /\ task_infos' = IF ~parentIsDir THEN <<>> ELSE InfoScan(<<>>, 1)
  /\ loadRet' = NoModule
  /\ held' = NoModule
  /\ eagerRet' = NoPair
  /\ last' = NoLast
  /\ stdout' = IF ~parentIsDir THEN {Msg("path not found", 0, "")}
               ELSE UNION {InfoPrints(e) : e \in Entries}
  /\ ran' = [top |-> {task_infos'[k].module_id : k \in 1..Len(task_infos')},
             hook |-> {}]
  /\ UNCHANGED <<parentIsDir, fs, sysModules, pc, task_info, module, i, task_names,
                 modules, edits>>

get_task_info_list ==
  /\ pc = "idle"
  /\ lastOp' = "get_task_info_list"
  /\ escaped' = "none"
  /\ task_infos' = IF ~parentIsDir THEN <<>> ELSE InfoScan(<<>>, 1)
  /\ loadRet' = NoModule
  /\ held' = NoModule
  /\ eagerRet' = NoPair
  /\ last' = NoLast
  /\ stdout' = IF ~parentIsDir THEN {Msg("path not found", 0, "")}
               ELSE UNION {InfoPrints(e) : e \in Entries}
  /\ ran' = NoRan
  /\ UNCHANGED <<parentIsDir, fs, sysModules, pc, task_info, module, i, task_names,
                 modules, edits>>

\* ------------------------------------------------ importlib, as both use it
\* min of a non-empty set of ids
MinOf(S) == CHOOSE x \in S : \A y \in S : x <= y

\* Mutant of module_from_spec: a module loaded before under the same name is
\* handed out again (a cache keyed by module name).
module_from_spec_Cached(name) ==
  IF held.id # 0 /\ held.token = name THEN held
  ELSE [id |-> MinOf(FreeIds), token |-> name,
        attr |-> [n \in HookNames |-> "absent"],
        ret |-> "raise", ident |-> "N1", execs |-> 0]

\* importlib.util.module_from_spec(spec): a new, empty module object named
\* name.  Nothing is looked up in or stored into sys.modules.
module_from_spec(name) ==
  [id |-> MinOf(FreeIds), token |-> name, attr |-> [n \in HookNames |-> "absent"],
   ret |-> "raise", ident |-> "N1", execs |-> 0]

\* spec.loader.exec_module(m) for a program whose top-level code completes:
\* the module with the program's bindings, its top-level code run once more.
Executed(m, prog) ==
  [m EXCEPT !.attr = prog.attr, !.ret = prog.ret, !.ident = prog.ident,
            !.execs = @ + 1]

\* sys.modules after the top-level code of prog ran in module m
Registered(m, prog) ==
  IF prog.reg THEN [sysModules EXCEPT ![m.token] = m.id] ELSE sysModules

\* ------------------------------------------------ gemini5.load_task_module
\* Mutant of FirstBad: the loop starts at the second required name.
RECURSIVE FirstBad_SkipsFirst(_, _)
FirstBad_SkipsFirst(m, k) ==
  IF k > Len(REQUIRED_FUNCTIONS) THEN ""
  ELSE IF k > 1 /\ (~hasattr(m, REQUIRED_FUNCTIONS[k]) \/ ~callable(m, REQUIRED_FUNCTIONS[k]))
       THEN REQUIRED_FUNCTIONS[k]
       ELSE FirstBad_SkipsFirst(m, k + 1)

\* gemini5.py:35-38: the first required name the module lacks or binds to a
\* non-callable, "" when there is none.
RECURSIVE FirstBad(_, _)
FirstBad(m, k) ==
  IF k > Len(REQUIRED_FUNCTIONS) THEN ""
  ELSE IF ~hasattr(m, REQUIRED_FUNCTIONS[k]) \/ ~callable(m, REQUIRED_FUNCTIONS[k])
       THEN REQUIRED_FUNCTIONS[k]
       ELSE FirstBad(m, k + 1)

\* load_task_module returns r (NoModule for None) or lets exc escape.
LoadReturn(r, exc) ==
  /\ pc' = "idle"
  /\ loadRet' = r
  /\ escaped' = exc
  /\ module' = NoModule
  /\ task_info' = NoInfo
  /\ last' = Ended(task_info.module_id, r # NoModule)

\* The host calls load_task_module with a descriptor of the list it holds and
\* keeps the module the previous load returned.
LoadCall(info) ==
  /\ pc = "idle"
  /\ FreeIds # {}
  /\ lastOp' = "load_task_module"
  /\ escaped' = "none"
  /\ eagerRet' = NoPair
  /\ held' = loadRet
  /\ loadRet' = NoModule
  /\ task_info' = info
  /\ pc' = "ld_resolve"
  /\ last' = NoLast
  /\ stdout' = {}
  /\ ran' = NoRan
  /\ UNCHANGED <<parentIsDir, fs, sysModules, task_infos, module, i, task_names,
                 modules, edits>>

\* gemini5.py:25-30: spec_from_file_location gives a spec with a loader for
\* every path that ends in .py; module_from_spec creates the module.
LdResolve ==
  /\ pc = "ld_resolve"
  /\ module' = module_from_spec(task_info.module_id)
  /\ pc' = "ld_exec"
  /\ UNCHANGED <<parentIsDir, fs, sysModules, lastOp, escaped, task_infos, loadRet,
                 held, eagerRet, task_info, i, task_names, modules, last, edits, stdout, ran>>

\* Mutant of LdExec: the module is returned as soon as its top-level code has
\* run, without the check of lines 35-38.
LdExec_ReturnsEarly ==
  /\ pc = "ld_exec"
  /\ LET prog == fs[task_info.main_py_path].main
     IN IF ~MainExists(task_info.main_py_path) \/ prog.top = "raise"
        THEN /\ LoadReturn(NoModule, "none")
             /\ stdout' = stdout \cup {Msg("module load exception", task_info.name, "")}
             /\ ran' = IF MainExists(task_info.main_py_path)
                       THEN [ran EXCEPT !.top = @ \cup {module.token}] ELSE ran
             /\ UNCHANGED sysModules
        ELSE IF prog.top = "exit"
        THEN /\ LoadReturn(NoModule, "SystemExit")
             /\ ran' = [ran EXCEPT !.top = @ \cup {module.token}]
             /\ UNCHANGED <<sysModules, stdout>>
        ELSE /\ LoadReturn(Executed(module, prog), "none")
             /\ sysModules' = Registered(module, prog)
             /\ ran' = [ran EXCEPT !.top = @ \cup {module.token}]
             /\ UNCHANGED stdout
  /\ UNCHANGED <<parentIsDir, fs, lastOp, task_infos, held, eagerRet, i,
                 task_names, modules, edits>>

\* gemini5.py:32, 42-44: exec_module runs the file as it is now.  An Exception
\* is caught and None returned; a BaseException that is no Exception is not
\* caught by `except Exception`.
LdExec ==
  /\ pc = "ld_exec"
  /\ LET prog == fs[task_info.main_py_path].main
     IN IF ~MainExists(task_info.main_py_path) \/ prog.top = "raise"
        THEN /\ LoadReturn(NoModule, "none")
             /\ stdout' = stdout \cup {Msg("module load exception", task_info.name, "")}
             /\ ran' = IF MainExists(task_info.main_py_path)
                       THEN [ran EXCEPT !.top = @ \cup {module.token}] ELSE ran
             /\ UNCHANGED sysModules
        ELSE IF prog.top = "exit"
        THEN /\ LoadReturn(NoModule, "SystemExit")
             /\ ran' = [ran EXCEPT !.top = @ \cup {module.token}]
             /\ UNCHANGED <<sysModules, stdout>>
        ELSE /\ module' = Executed(module, prog)
             /\ sysModules' = Registered(module, prog)
             /\ pc' = "ld_validate"
             /\ ran' = [ran EXCEPT !.top = @ \cup {module.token}]
             /\ UNCHANGED <<loadRet, escaped, task_info, last, stdout>>
  /\ UNCHANGED <<parentIsDir, fs, lastOp, task_infos, held, eagerRet, i,
                 task_names, modules, edits>>

\* gemini5.py:35-40
LdValidate ==
  /\ pc = "ld_validate"
  /\ IF FirstBad(module, 1) # ""
     THEN /\ LoadReturn(NoModule, "none")
          /\ stdout' = stdout \cup {Msg("function not found", 0, FirstBad(module, 1))}
     ELSE /\ LoadReturn(module, "none")
          /\ UNCHANGED stdout
  /\ UNCHANGED <<parentIsDir, fs, sysModules, lastOp, task_infos, held, eagerRet,
                 i, task_names, modules, edits, ran>>

\* ------------------------------------------- load_module.get_task_module
\* `continue` and the end of the loop body: on to the next entry, or, after the
\* last one, return (names, mods) (load_module.py:67).
Continue(names, mods) ==
  /\ module' = NoModule
  /\ last' = Ended(<<i, "">>, mods # modules)
  /\ IF i < NumEntries
     THEN /\ i' = i + 1
          /\ pc' = "eg_filter"
          /\ task_names' = names
          /\ modules' = mods
          /\ UNCHANGED eagerRet
     ELSE /\ i' = 0
          /\ pc' = "idle"
          /\ task_names' = <<>>
          /\ modules' = <<>>
          /\ eagerRet' = [task_names |-> names, modules |-> mods, returned |-> TRUE]

\* An exception leaves get_task_module: the call ends without a return value.
Abort(exc) ==
  /\ escaped' = exc
  /\ last' = Ended(<<i, "">>, FALSE)
  /\ module' = NoModule
  /\ i' = 0
  /\ pc' = "idle"
  /\ task_names' = <<>>
  /\ modules' = <<>>

\* load_module.py:19-22: os.listdir(task_path) is outside every try; it raises
\* FileNotFoundError or NotADirectoryError when the path is no directory.
EagerCall ==
  /\ pc = "idle"
  /\ Cardinality((1..MaxUnits) \ {sysModules[t] : t \in Tokens}) >= NumEntries
  /\ lastOp' = "get_task_module"
  /\ eagerRet' = NoPair
  /\ loadRet' = NoModule
  /\ held' = NoModule
  /\ IF ~parentIsDir
     THEN /\ escaped' = "OSError"
          /\ UNCHANGED <<pc, i>>
     ELSE /\ escaped' = "none"
          /\ i' = 1
          /\ pc' = "eg_filter"
  /\ last' = NoLast
  /\ stdout' = {}
  /\ ran' = NoRan
  /\ UNCHANGED <<parentIsDir, fs, sysModules, task_infos, task_info, module,
                 task_names, modules, edits>>

\* load_module.py:23-33
EgFilter ==
  /\ pc = "eg_filter"
  /\ IF ~fs[i].isDir \/ ~MainExists(i)
     THEN Continue(task_names, modules)
     ELSE /\ pc' = "eg_resolve"
          /\ UNCHANGED <<module, i, task_names, modules, eagerRet, last>>
  /\ UNCHANGED <<parentIsDir, fs, sysModules, lastOp, escaped, task_infos, loadRet,
                 held, task_info, edits, stdout, ran>>

\* load_module.py:37-40: the spec of a main.py is never None
EgResolve ==
  /\ pc = "eg_resolve"
  /\ module' = module_from_spec(<<i, "">>)
  /\ pc' = "eg_exec"
  /\ UNCHANGED <<parentIsDir, fs, sysModules, lastOp, escaped, task_infos, loadRet,
                 held, eagerRet, task_info, i, task_names, modules, last, edits, stdout, ran>>

\* load_module.py:41, 63-65
EgExec ==
  /\ pc = "eg_exec"
  /\ LET prog == fs[i].main
     IN IF prog.top = "raise"
        THEN /\ Continue(task_names, modules)
             /\ UNCHANGED <<sysModules, escaped>>
        ELSE IF prog.top = "exit"
        THEN /\ Abort("SystemExit")
             /\ UNCHANGED <<sysModules, eagerRet>>
        ELSE /\ module' = Executed(module, prog)
             /\ sysModules' = Registered(module, prog)
             /\ pc' = "eg_reload"
             /\ UNCHANGED <<escaped, i, task_names, modules, eagerRet, last>>
  /\ ran' = [ran EXCEPT !.top = @ \cup {module.token}]
  /\ UNCHANGED <<parentIsDir, fs, lastOp, task_infos, loadRet, held, task_info, edits,
                 stdout>>

\* What the import system finds for a module name when importlib.reload looks
\* the name up again (sys.meta_path, sys.path): nothing; a spec whose loader
\* runs no code of the plugin (the plugin directory found as a namespace
\* package); or the plugin's main.py.
Finds == {"nothing", "noexec", "main.py"}

\* load_module.py:44, 63-65: importlib.reload(module) raises ImportError unless
\* sys.modules[name] is this very module, raises ModuleNotFoundError when the
\* name is not found again, and otherwise executes what was found in the same
\* module object and returns sys.modules[name].
EgReload(found) ==
  /\ pc = "eg_reload"
  /\ IF sysModules[module.token] # module.id \/ found = "nothing"
     THEN /\ Continue(task_names, modules)
     ELSE /\ module' = IF found = "main.py" THEN Executed(module, fs[i].main) ELSE module
          /\ pc' = "eg_validate"
          /\ UNCHANGED <<i, task_names, modules, eagerRet, last>>
  /\ UNCHANGED <<parentIsDir, fs, sysModules, lastOp, escaped, task_infos, loadRet,
                 held, task_info, edits, stdout, ran>>

\* Mutant of HasAll: every module passes the check.
HasAll_True(m) == TRUE

\* load_module.py:47-49
HasAll(m) == \A k \in 1..Len(required_funcs) : hasattr(m, required_funcs[k])

EgValidate ==
  /\ pc = "eg_validate"
  /\ IF ~HasAll(module)
     THEN Continue(task_names, modules)
     ELSE /\ pc' = "eg_describe"
          /\ UNCHANGED <<module, i, task_names, modules, eagerRet, last>>
  /\ UNCHANGED <<parentIsDir, fs, sysModules, lastOp, escaped, task_infos, loadRet,
                 held, task_info, edits, stdout, ran>>

\* Mutant of get_name: whatever the attribute is or gives comes back as if it
\* were a string.
get_name_AnyValue(m) ==
  [kind |-> "str", value |-> IF callable(m, "get_name") /\ m.ret = "str"
                             THEN m.ident ELSE "<object>"]

\* module.get_name(): calling a non-callable raises TypeError
get_name(m) ==
  IF ~callable(m, "get_name") THEN [kind |-> "raise", value |-> ""]
  ELSE IF m.ret = "str" THEN [kind |-> "str", value |-> m.ident]
  ELSE [kind |-> m.ret, value |-> ""]

\* Mutant of EgDescribe: the identity is put at the front of its list.
EgDescribe_Prepends ==
  /\ pc = "eg_describe"
  /\ LET task_name == get_name(module)
     IN IF task_name.kind # "str"
        THEN Continue(task_names, modules)
        ELSE Continue(<<task_name.value>> \o task_names, Append(modules, module))
  /\ ran' = [ran EXCEPT !.hook = @ \cup {module.token}]
  /\ UNCHANGED <<parentIsDir, fs, sysModules, lastOp, escaped, task_infos, loadRet,
                 held, task_info, edits, stdout>>

\* load_module.py:51-61
EgDescribe ==
  /\ pc = "eg_describe"
  /\ LET task_name == get_name(module)
     IN IF task_name.kind # "str"
        THEN Continue(task_names, modules)
        ELSE Continue(Append(task_names, task_name.value), Append(modules, module))
  /\ ran' = [ran EXCEPT !.hook = @ \cup {module.token}]
  /\ UNCHANGED <<parentIsDir, fs, sysModules, lastOp, escaped, task_infos, loadRet,
                 held, task_info, edits, stdout>>

\* ------------------------------------------------------------ environment
\* Between two calls somebody rewrites the main.py of entry e.
EditMain(e, prog) ==
  /\ pc = "idle"
  /\ edits < MaxEdits
  /\ MainExists(e)
  /\ prog # fs[e].main
  /\ fs' = [fs EXCEPT ![e].main = prog]
  /\ edits' = edits + 1
  /\ UNCHANGED <<parentIsDir, sysModules, pc, lastOp, escaped, task_infos, loadRet,
                 held, eagerRet, task_info, module, i, task_names, modules, last,
                 stdout, ran>>

Init ==
  /\ parentIsDir \in BOOLEAN
  /\ fs \in Layouts
  /\ sysModules = [t \in Tokens |-> 0]
  /\ pc = "idle"
  /\ lastOp = "none"
  /\ escaped = "none"
  /\ task_infos = <<>>
  /\ loadRet = NoModule
  /\ held = NoModule
  /\ eagerRet = NoPair
  /\ task_info = NoInfo
  /\ module = NoModule
  /\ i = 0
  /\ task_names = <<>>
  /\ modules = <<>>
  /\ last = NoLast
  /\ stdout = {}
  /\ ran = NoRan
  /\ edits = 0

Next ==
  \/ get_task_info_list
  \/ \E k \in 1..Len(task_infos) : LoadCall(task_infos[k])
  \/ LdResolve
  \/ LdExec
  \/ LdValidate
  \/ EagerCall
  \/ EgFilter
  \/ EgResolve
  \/ EgExec
  \/ \E found \in Finds : EgReload(found)
  \/ EgValidate
  \/ EgDescribe

Spec == Init /\ [][Next]_vars

\* The metadata-first flow with a main.py rewritten between calls: the parent
\* directory exists, every entry is of a basic kind, and an edit puts another
\* basic program in place.
InitEdit ==
  /\ Init
  /\ parentIsDir
  /\ \A e \in Entries : fs[e] \in BasicKinds

NextEdit ==
  \/ get_task_info_list
  \/ \E k \in 1..Len(task_infos) : LoadCall(task_infos[k])
  \/ LdResolve
  \/ LdExec
  \/ LdValidate
  \/ \E e \in Entries, prog \in BasicPrograms : EditMain(e, prog)

SpecEdit == InitEdit /\ [][NextEdit]_vars

\* ================================================================== claims
\* A subdirectory with a main.py: what both flows load from.
IsCandidate(e) == fs[e].isDir /\ MainExists(e)

\* The program runs cleanly, defines the four hooks get_task_module asks for as
\* functions, and its description hook returns a str.
CleanValid(prog) ==
  /\ prog.top = "ok"
  /\ \A k \in 1..Len(required_funcs) : prog.attr[required_funcs[k]] = "callable"
  /\ prog.ret = "str"

\* get_task_module returned, and position k of its lists is entry e's module
\* with the identity e's description hook returns
ReturnedAt(e, k) ==
  /\ k \in 1..Len(eagerRet.modules)
  /\ k \in 1..Len(eagerRet.task_names)
  /\ eagerRet.modules[k].token = <<e, "">>
  /\ eagerRet.task_names[k] = fs[e].main.ident

\* C1 (isolation, eager flow): when every entry is a candidate and exactly one
\* of them has a corrupt or invalid entry point (its top-level code fails with
\* an exception, a hook is missing, or the description hook gives no str), a
\* finished get_task_module call has returned exactly NumEntries - 1 identities
\* and NumEntries - 1 modules, one per valid candidate, each identity being
\* what that candidate's description hook returns.
C1_Isolation ==
  ( /\ pc = "idle"
    /\ lastOp = "get_task_module"
    /\ parentIsDir
    /\ \A e \in Entries : IsCandidate(e) /\ fs[e].main.top # "exit"
    /\ Cardinality({e \in Entries : ~CleanValid(fs[e].main)}) = 1 )
  => /\ eagerRet.returned
     /\ Len(eagerRet.modules) = NumEntries - 1
     /\ Len(eagerRet.task_names) = NumEntries - 1
     /\ \A e \in Entries :
          CleanValid(fs[e].main) => \E k \in 1..NumEntries : ReturnedAt(e, k)

\* C2 (empty-path safety): when the parent path is no directory, a finished
\* get_task_info_list call returned the empty list and a finished
\* get_task_module call returned a pair of empty lists, and neither let an
\* exception escape.
C2_EmptyPathSafety ==
  (pc = "idle" /\ ~parentIsDir) =>
    /\ lastOp = "get_task_info_list" => (escaped = "none" /\ task_infos = <<>>)
    /\ lastOp = "get_task_module" =>
         /\ escaped = "none"
         /\ eagerRet = [task_names |-> <<>>, modules |-> <<>>, returned |-> TRUE]

\* Some name of req is not defined by the program.
Lacks(prog, req) == \E k \in 1..Len(req) : prog.attr[req[k]] = "absent"

\* The program defines exactly three of the four names of req.
ThreeOfFour(prog, req) ==
  Cardinality({k \in 1..Len(req) : prog.attr[req[k]] = "absent"}) = 1

\* The module objects of a list
Range(seq) == {seq[k] : k \in 1..Len(seq)}

\* C3 (interface gate): a candidate whose main.py leaves one of the four
\* required names of a flow undefined is in no load result of that flow:
\* load_task_module returned no module for it, and it is in neither the list
\* get_task_module is building nor the one it returned.
C3_InterfaceGate ==
  \A e \in Entries :
    /\ Lacks(fs[e].main, REQUIRED_FUNCTIONS) =>
         /\ loadRet.token # <<e, "_main">>
         /\ held.token # <<e, "_main">>
    /\ Lacks(fs[e].main, required_funcs) =>
         \A m \in Range(modules) \cup Range(eagerRet.modules) : m.token # <<e, "">>

\* C3 witness: get_task_module returned a non-empty result after it dropped,
\* at its interface check, a candidate that defines three of the four names.
C3_Witness ==
  /\ pc = "idle"
  /\ eagerRet.returned
  /\ Len(eagerRet.modules) >= 1
  /\ last.at = "eg_validate"
  /\ ~last.ok
  /\ ThreeOfFour(fs[last.token[1]].main, required_funcs)

\* C4 (invocability gate): every module a load returned has all four required
\* names of its flow bound to callables.
C4_InvocabilityGate ==
  /\ \A m \in {loadRet, held} \ {NoModule} :
       \A k \in 1..Len(REQUIRED_FUNCTIONS) : m.attr[REQUIRED_FUNCTIONS[k]] = "callable"
  /\ \A m \in Range(modules) \cup Range(eagerRet.modules) :
       \A k \in 1..Len(required_funcs) : m.attr[required_funcs[k]] = "callable"

\* C5 (fresh load): whenever load_task_module returns a module, that module is
\* another object than the one the previous load returned, it holds what the
\* main.py binds as the file is now, its top-level code ran once, and the
\* module of the previous load is as it was.
C5_FreshLoad ==
  [][ (pc = "ld_validate" /\ loadRet' # NoModule) =>
        LET prog == fs[loadRet'.token[1]].main
        IN /\ loadRet'.id # held.id
           /\ loadRet'.attr = prog.attr
           /\ loadRet'.ret = prog.ret
           /\ loadRet'.ident = prog.ident
           /\ loadRet'.execs = 1
           /\ held' = held ]_vars

\* C5 witness: two loads of the same descriptor, the file rewritten in between:
\* the host holds two modules with different content.
C5_Witness ==
  /\ pc = "idle"
  /\ lastOp = "load_task_module"
  /\ edits = 1
  /\ held # NoModule
  /\ loadRet # NoModule
  /\ held.token = loadRet.token
  /\ held.ident # loadRet.ident
  /\ loadRet.ident = fs[loadRet.token[1]].main.ident

\* position k of names is the str the description hook of ms[k] returns
Aligned(names, ms) ==
  /\ Len(names) = Len(ms)
  /\ \A k \in 1..Len(ms) :
       /\ ms[k].attr["get_name"] = "callable"
       /\ ms[k].ret = "str"
       /\ names[k] = ms[k].ident

\* C6 (index alignment): after every step of get_task_module and after its
\* return, the identity list and the module list have the same length and
\* position k of the first is what the description hook of the module at
\* position k of the second returns.
C6_IndexAlignment ==
  /\ Aligned(task_names, modules)
  /\ Aligned(eagerRet.task_names, eagerRet.modules)

\* C6 witness: get_task_module returned two modules with different identities.
C6_Witness ==
  /\ eagerRet.returned
  /\ Len(eagerRet.modules) >= 2
  /\ eagerRet.task_names[1] # eagerRet.task_names[2]

AllSpace(s) == \A k \in 1..Len(s) : IsSpace(s[k])

\* d is s without its leading and trailing whitespace, and is not empty
Trimmed(d, s) ==
  /\ d # <<>>
  /\ ~IsSpace(d[1])
  /\ ~IsSpace(d[Len(d)])
  /\ \E a \in 0..Len(s) :
       /\ a + Len(d) <= Len(s)
       /\ SubSeq(s, a + 1, a + Len(d)) = d
       /\ AllSpace(SubSeq(s, 1, a))
       /\ AllSpace(SubSeq(s, a + Len(d) + 1, Len(s)))

\* C7 (identity non-empty): every descriptor of the list get_task_info_list
\* returned has a non-empty description that is its name.txt without leading
\* and trailing whitespace, and no descriptor is there for an entry whose
\* name.txt is empty or all whitespace.
C7_IdentityNonEmpty ==
  /\ \A k \in 1..Len(task_infos) :
       /\ fs[task_infos[k].name].sidecar \in Texts
       /\ Trimmed(task_infos[k].description, fs[task_infos[k].name].sidecar)
  /\ \A e \in Entries :
       (fs[e].sidecar \in Texts /\ AllSpace(fs[e].sidecar)) =>
         \A k \in 1..Len(task_infos) : task_infos[k].name # e

\* C7 witness: get_task_info_list returned a descriptor for one candidate and
\* none for a candidate whose name.txt holds whitespace only.
C7_Witness ==
  /\ lastOp = "get_task_info_list"
  /\ Len(task_infos) >= 1
  /\ \E e \in Entries :
       /\ MainExists(e)
       /\ fs[e].sidecar \in Texts
       /\ fs[e].sidecar # <<>>
       /\ AllSpace(fs[e].sidecar)

\* C8 (load never propagates a fault): no load_task_module call lets an
\* exception escape to its caller.
C8_NoEscape == lastOp = "load_task_module" => escaped = "none"

\* C9 (exactly-once execution): the top-level code ran exactly once in every
\* module a load returned and in every module that reached the interface check.
C9_ExactlyOnce ==
  /\ \A m \in ({loadRet, held} \ {NoModule}) \cup Range(modules)
              \cup Range(eagerRet.modules) : m.execs = 1
  /\ pc \in {"ld_validate", "eg_validate", "eg_describe"} => module.execs = 1

\* C10 (no global registry): sys.modules holds a module only under the name of
\* a plugin whose own code put it there, and no load attempt fails because its
\* module is absent from sys.modules.
C10_NoGlobalRegistry ==
  /\ \A t \in Tokens : sysModules[t] # 0 => fs[t[1]].main.reg
  /\ ~(last.at = "eg_reload" /\ ~last.ok /\ sysModules[last.token] = 0)

\* C11 (discovery executes no plugin code): a get_task_info_list call runs no
\* top-level code and no hook and creates no module; a load_task_module call
\* runs the code of the descriptor it was given and of no other entry; and a
\* descriptor has the four fields of TaskModuleInfo, none of them a module.
C11_NoCodeAtDiscovery ==
  /\ lastOp = "get_task_info_list" => (ran = NoRan /\ module = NoModule)
  /\ lastOp = "load_task_module" =>
       ran.top \subseteq {task_info.module_id, last.token}
  /\ \A k \in 1..Len(task_infos) :
       DOMAIN task_infos[k] = {"name", "description", "main_py_path", "module_id"}

\* C11 witness: get_task_info_list listed every entry, one of them a plugin
\* whose top-level code would have registered itself had it run.
C11_Witness ==
  /\ lastOp = "get_task_info_list"
  /\ Len(task_infos) = NumEntries
  /\ \E e \in Entries : fs[e].main.reg /\ sysModules[<<e, "_main">>] = 0

\* C12 (observable failures): a get_task_info_list call printed a message for
\* every candidate it rejected for an empty name.txt; a load_task_module call
\* that failed at the interface check printed the name of a hook the module
\* lacks or binds to a non-callable; and a get_task_module call that dropped a
\* candidate at its interface check printed a message too.
C12_ObservableFailures ==
  /\ (lastOp = "get_task_info_list" /\ parentIsDir) =>
       \A e \in Entries :
         (MainExists(e) /\ fs[e].sidecar \in Texts /\ AllSpace(fs[e].sidecar)) =>
           \E m \in stdout : m.name = e /\ m.msg = "name.txt empty, skipped"
  /\ (last.at = "ld_validate" /\ ~last.ok) =>
       \E m \in stdout :
         /\ m.func \in HookNames
         /\ fs[last.token[1]].main.attr[m.func] # "callable"
  /\ (last.at = "eg_validate" /\ ~last.ok) => stdout # {}

\* The entries that qualify for the metadata-first flow: main.py and name.txt
\* are there and name.txt reads as a text that is not blank.
Qualifies(e) ==
  /\ MainExists(e)
  /\ SidecarExists(e)
  /\ fs[e].sidecar \in Texts
  /\ ~AllSpace(fs[e].sidecar)

\* The program runs cleanly and binds the four names of REQUIRED_FUNCTIONS to
\* functions.
DefinesAllFour(prog) ==
  /\ prog.top = "ok"
  /\ \A k \in 1..Len(REQUIRED_FUNCTIONS) : prog.attr[REQUIRED_FUNCTIONS[k]] = "callable"

\* C13 (metadata-first discovery result): the list get_task_info_list returned
\* has one descriptor for each qualifying entry and for no other, in listing
\* order, with name the directory name, description the trimmed name.txt and
\* main_py_path the entry's main.py; and a finished load_task_module call on a
\* descriptor whose main.py defines all four hooks as functions returned a
\* module of that descriptor in which all four are callable.
C13_DiscoveryResult ==
  /\ (lastOp \in {"get_task_info_list", "load_task_module"} /\ parentIsDir) =>
       /\ {task_infos[k].name : k \in 1..Len(task_infos)} = {e \in Entries : Qualifies(e)}
       /\ \A k \in 1..Len(task_infos) :
            /\ \A j \in 1..(k - 1) : task_infos[j].name < task_infos[k].name
            /\ Trimmed(task_infos[k].description, fs[task_infos[k].name].sidecar)
            /\ task_infos[k].main_py_path = task_infos[k].name
            /\ task_infos[k].module_id = <<task_infos[k].name, "_main">>
  /\ (pc = "idle" /\ lastOp = "load_task_module"
        /\ DefinesAllFour(fs[last.token[1]].main)) =>
       /\ loadRet # NoModule
       /\ loadRet.token = last.token
       /\ \A k \in 1..Len(REQUIRED_FUNCTIONS) :
            loadRet.attr[REQUIRED_FUNCTIONS[k]] = "callable"

\* C13 witness: discovery went on past an entry whose name.txt cannot be read,
\* and the load of a later entry's descriptor returned a module.
C13_Witness ==
  /\ pc = "idle"
  /\ lastOp = "load_task_module"
  /\ loadRet # NoModule
  /\ \E e \in Entries :
       /\ MainExists(e)
       /\ fs[e].sidecar = Unreadable
       /\ loadRet.token[1] > e

\* C14 (shared interface contract): the check of load_task_module accepts a
\* module exactly when the check of get_task_module accepts it.
C14_SharedContract ==
  pc \in {"ld_validate", "eg_validate"} =>
    ((FirstBad(module, 1) = "") <=> HasAll(module))

\* The stage of the load attempt in progress or, between attempts, of the one
\* that ended last (gemini5.py:25-40, load_module.py:37-49).  Requested is the
\* step that enters Resolving: the call of load_task_module, or the loop of
\* get_task_module entering its try block for an entry that has a main.py.
\* "None" is the state in which the call has made no attempt yet.
Stage ==
  CASE pc \in {"ld_resolve", "eg_resolve"} -> "Resolving"
    [] pc \in {"ld_exec", "eg_exec", "eg_reload"} -> "Executing"
    [] pc \in {"ld_validate", "eg_validate"} -> "Validating"
    [] pc = "eg_describe" -> "Ready"
    [] OTHER -> IF last.at \in {"none", "eg_filter"} THEN "None"
                ELSE IF last.ok \/ last.at = "eg_describe" THEN "Ready"
                ELSE "Failed"

\* C15 (load state machine): every step takes a load attempt forward, from
\* Resolving to Executing, from Executing to Validating, and from any of the
\* three to Failed; Ready is entered from Validating only, by a module that
\* passed the check of the flow it is in; a finished attempt is followed by
\* nothing but the start of a new one; and a new attempt starts with no module
\* and resolves to a module in which nothing has run.
C15_LoadStateMachine ==
  [][ /\ Stage = "Resolving" => Stage' \in {"Executing", "Failed"}
      /\ Stage = "Executing" => Stage' \in {"Executing", "Validating", "Failed"}
      /\ Stage = "Validating" => Stage' \in {"Ready", "Failed"}
      /\ (Stage' = "Ready" /\ Stage # "Ready") =>
           /\ Stage = "Validating"
           /\ IF pc = "ld_validate" THEN FirstBad(module, 1) = "" ELSE HasAll(module)
      /\ (Stage' = "Failed" /\ Stage # "Failed") =>
           Stage \in {"Resolving", "Executing", "Validating"}
      /\ Stage \in {"None", "Ready", "Failed"} => Stage' \in {Stage, "None", "Resolving"}
      /\ (Stage' = "Resolving" /\ Stage # "Resolving") => module' = NoModule
      /\ (Stage = "Resolving" /\ Stage' = "Executing") =>
           /\ module'.execs = 0
           /\ \A n \in HookNames : module'.attr[n] = "absent"
           /\ module'.id \notin HeldIds
    ]_vars

\* C15 witness: a load_task_module call went through all stages and is Ready.
C15_Witness ==
  /\ pc = "idle"
  /\ lastOp = "load_task_module"
  /\ Stage = "Ready"
  /\ last.at = "ld_validate"
  /\ loadRet.execs = 1

\* The entry's get_name does not give a string: it raises, returns something
\* else, or is no function at all.
BadDescription(e) ==
  fs[e].main.ret # "str" \/ fs[e].main.attr["get_name"] # "callable"

C17_HookOrdering ==
  /\ lastOp \in {"get_task_info_list", "load_task_module"} => ran.hook = {}
  /\ \A t \in ran.hook :
       /\ t \in ran.top
       /\ \A k \in 1..Len(required_funcs) :
            fs[t[1]].main.attr[required_funcs[k]] # "absent"
  /\ pc = "eg_describe" => (module.execs >= 1 /\ HasAll(module))

\* C17 witness: get_task_module called get_name on one candidate and returned
\* its module, and called no hook of another candidate whose top-level code it
\* had executed.
C17_Witness ==
  /\ pc = "idle"
  /\ lastOp = "get_task_module"
  /\ ran.hook # {}
  /\ Len(eagerRet.modules) = Cardinality(ran.hook)
  /\ \E e \in Entries : <<e, "">> \in ran.top \ ran.hook

====
